---- MODULE Spec2Model ----
(***************************************************************************)
(* LyreCloud-Teams: the account store and file catalog of                  *)
(* server/nextcloud-storage.ts (class NextCloudStorage), the account       *)
(* routes of server/auth.ts and the file routes of the routes module.      *)
(*                                                                         *)
(* The remote WebDAV store is the environment: every call to it may fail,  *)
(* and a failed write of a document may leave the document untouched or    *)
(* partially written.  The number of failures in one run is bounded.       *)
(*                                                                         *)
(* A request that ends in an early return with nothing done (401 and 403   *)
(* of the isAdmin middleware, 404 for an id that is not found, a failed    *)
(* login) is a guard of its action.  initializeStorage runs as one step;   *)
(* the routes are served once it has run.  setupDefaultAdmin is two steps  *)
(* (the look for an admin, then createUser) that interleave with it.       *)
(***************************************************************************)
EXTENDS Integers, Sequences, FiniteSets, TLC

VARIABLES
    users,          \* NextCloudStorage.users: Map<number, User>
    userCurrentId,  \* NextCloudStorage.userCurrentId
    sessions,       \* ids of the accounts holding a login session (passport)
    usersJson,      \* remote document <baseFolder>/users.json
    usersBackup,    \* remote document <baseFolder>/users.backup.json
    userFaults,     \* failures the remote store may still answer on the account documents
    files,          \* NextCloudStorage.files: Map<number, File>
    fileCurrentId,  \* NextCloudStorage.fileCurrentId
    fileMetadata,   \* NextCloudStorage.fileMetadata: cached records by filename, or null
    cdns,           \* remote folder <baseFolder>/cdns: the stored objects by name
    filesJson,      \* remote document <baseFolder>/files.json
    sidecars,       \* remote folder <baseFolder>/metadata: <filename>.json by filename
    fileFaults,     \* failures the remote store may still answer on the file calls
    now,            \* the clock read by new Date()
    uploads,        \* uploads received so far (the nanoid of a temporary file)
    booted,         \* initializeStorage has run
    setupPc,        \* where setupDefaultAdmin stands
    registering,    \* per username: the register requests past their uniqueness check
    renaming,       \* the updateFile call that has read its entry and awaits the store
    saving,         \* the users.json documents serialised by saves that await the store
    storageClass,   \* which NextCloudStorage class the process has constructed
    resp            \* the request handled by the last step and its answer

uvars == <<users, userCurrentId, usersJson, usersBackup, userFaults>>

fvars == <<files, fileCurrentId, fileMetadata, cdns, filesJson, sidecars, fileFaults>>

\* The requests in flight between two of their await points, and the class
\* of the storage object, fixed at construction.
pvars == <<registering, renaming, saving, storageClass>>

vars == <<uvars, sessions, fvars, now, uploads, booted, setupPc, pvars, resp>>

(***************************************************************************)
(* Bounds of the model.                                                    *)
(***************************************************************************)
MaxUserId == 3

\* How many calls on users.json / users.backup.json may fail in one run.
MaxUserFaults == 1

\* How many register requests for one username may be in flight at once.
MaxRegistering == 2

\* How many saveUsersToNextCloud calls may await the store at once.
MaxSaving == 2

(***************************************************************************)
(* Accounts.                                                               *)
(***************************************************************************)
ADMIN == "rdxhere.exe"

Usernames == {ADMIN, "alice"}

User(u, p, r, s, a) ==
    [username |-> u, password |-> p, role |-> r, status |-> s, isApproved |-> a]

\* The account every self-heal path synthesises: the password is the raw
\* string 'rdxpass', not a scrypt hash.
DefaultAdmin == User(ADMIN, "rdxpass", "admin", "approved", TRUE)

EmptyMap == [i \in {} |-> DefaultAdmin]

MapSet(m, k, v) == [i \in (DOMAIN m) \cup {k} |-> IF i = k THEN v ELSE m[i]]

MapDelete(m, k) == [i \in (DOMAIN m) \ {k} |-> m[i]]

\* Array.from(this.users.values()).find(u => u.username === name): the first
\* match in Map order.  Ids are handed out increasing and a loaded document
\* is sorted by id, so Map order is id order.  0 stands for undefined.
FindByUsername(us, name) ==
    LET hits == {i \in DOMAIN us : us[i].username = name}
    IN  IF hits = {} THEN 0 ELSE CHOOSE i \in hits : \A j \in hits : i <= j

getUserByUsername(us, name) == FindByUsername(us, name)

\* Remote documents.
Absent == [kind |-> "absent", users |-> EmptyMap]
Corrupt == [kind |-> "corrupt", users |-> EmptyMap]
Doc(us) == [kind |-> "doc", users |-> us]

\* File names: an optional nanoid prefix ("<pre>-"), a base and an extension.
Name(pre, base, ext) == [pre |-> pre, base |-> base, ext |-> ext]

NoName == Name(0, "", "")

\* What a step did: the route, the id and name in the request, the status
\* code of the answer, its partialSuccess flag, and the path the handler took.
Answer(op, target, arg, code, partial, note) ==
    [op |-> op, target |-> target, arg |-> arg, code |-> code,
     partial |-> partial, note |-> note]

NoResp == Answer("none", 0, NoName, 0, FALSE, "")

Resp(op, target, code) == Answer(op, target, NoName, code, FALSE, "")

(***************************************************************************)
(* saveUsersToNextCloud: self-heal of the in-memory map, then backup,      *)
(* write and retry against the remote store.                               *)
(***************************************************************************)
maxRetries == 3

\* The per-account fix-up done on every account before it is serialised.
\* "" stands for a missing field.
NormalizeUser(u, id) ==
    LET name   == IF u.username = "" THEN "user_" \o ToString(id) ELSE u.username
        pass   == IF u.password = "" THEN "default_password" ELSE u.password
        fixed  == IF u.username = "" \/ u.password = ""
                  THEN [u EXCEPT !.username = name, !.password = pass]
                  ELSE u
        role   == IF fixed.role = "" THEN "user" ELSE fixed.role
        status == IF fixed.status = "" THEN "pending" ELSE fixed.status
    IN  [fixed EXCEPT !.role = role, !.status = status,
                      !.isApproved = (status = "approved")]

\* The in-memory part of a save: add the default administrator when no
\* account is called rdxhere.exe, force that account's role to admin, then
\* normalise every account in place (the array holds the Map's own objects).
SaveHeal(us, cur) ==
    LET a    == FindByUsername(us, ADMIN)
        us1  == IF a = 0 THEN MapSet(us, cur, DefaultAdmin) ELSE us
        cur1 == IF a = 0 THEN cur + 1 ELSE cur
        a1   == FindByUsername(us1, ADMIN)
        us2  == IF us1[a1].role # "admin" THEN [us1 EXCEPT ![a1].role = "admin"] ELSE us1
    IN  [users |-> [i \in DOMAIN us2 |-> NormalizeUser(us2[i], i)], cur |-> cur1]

\* The remote part of one save, from attempt number retryCount on, with f
\* failures still allowed: the set of possible final states of users.json and
\* users.backup.json, with ok = FALSE when the last attempt failed too (the
\* call throws).
\*  - backup: when users.json exists it is copied over users.backup.json;
\*    a failing exists/copyFile is only logged and leaves the backup as it was;
\*  - write: putFileContents either stores the content, or fails leaving
\*    users.json untouched or partially written;
\*  - a failed attempt re-enters the whole body, backup step included.
\*  - puts: the putFileContents calls made; waited: the delays (ms) slept
\*    before the retries, Math.pow(2, retryCount) * 1000 each.
Delay(retryCount) == (2 ^ retryCount) * 1000

Retried(r, retryCount) ==
    [r EXCEPT !.puts = @ + 1, !.waited = <<Delay(retryCount)>> \o @]

\* The same with the retry test off by one (retryCount <= maxRetries).
RECURSIVE SaveAttemptsOnceMore(_, _, _, _, _)
SaveAttemptsOnceMore(content, json, backup, retryCount, f) ==
    LET backups == IF json.kind = "absent" THEN {<<backup, f>>}
                   ELSE {<<json, f>>} \cup (IF f > 0 THEN {<<backup, f - 1>>} ELSE {})
        failed  == {json, Corrupt}
    IN  UNION {
          {[json |-> content, backup |-> b[1], ok |-> TRUE, f |-> b[2],
            puts |-> 1, waited |-> <<>>]}
          \cup
          (IF b[2] = 0 THEN {}
           ELSE IF retryCount <= maxRetries
           THEN UNION {{Retried(r, retryCount)
                        : r \in SaveAttemptsOnceMore(content, j, b[1], retryCount + 1, b[2] - 1)}
                       : j \in failed}
           ELSE {[json |-> j, backup |-> b[1], ok |-> FALSE, f |-> b[2] - 1,
                  puts |-> 1, waited |-> <<>>] : j \in failed})
          : b \in backups }

RECURSIVE SaveAttempts(_, _, _, _, _)
SaveAttempts(content, json, backup, retryCount, f) ==
    LET backups == IF json.kind = "absent" THEN {<<backup, f>>}
                   ELSE {<<json, f>>} \cup (IF f > 0 THEN {<<backup, f - 1>>} ELSE {})
        failed  == {json, Corrupt}
    IN  UNION {
          {[json |-> content, backup |-> b[1], ok |-> TRUE, f |-> b[2],
            puts |-> 1, waited |-> <<>>]}
          \cup
          (IF b[2] = 0 THEN {}
           ELSE IF retryCount < maxRetries
           THEN UNION {{Retried(r, retryCount)
                        : r \in SaveAttempts(content, j, b[1], retryCount + 1, b[2] - 1)}
                       : j \in failed}
           ELSE {[json |-> j, backup |-> b[1], ok |-> FALSE, f |-> b[2] - 1,
                  puts |-> 1, waited |-> <<>>] : j \in failed})
          : b \in backups }

\* The state of the account store: the Map, the id counter, the two remote
\* documents and the failures still allowed.
UState(us, cur, json, backup, f) ==
    [users |-> us, cur |-> cur, json |-> json, backup |-> backup, f |-> f]

saveUsersToNextCloud(st) ==
    LET healed == SaveHeal(st.users, st.cur)
    IN  { [st |-> UState(healed.users, healed.cur, r.json, r.backup, r.f), ok |-> r.ok,
           puts |-> r.puts, waited |-> r.waited]
          : r \in SaveAttempts(Doc(healed.users), st.json, st.backup, 0, st.f) }

\* createUser: the account is put in the Map before the save; a failed save
\* is rethrown with the account still in the Map.
createUser(st, insertUser) ==
    LET id   == st.cur
        user == [insertUser EXCEPT
                   !.role = IF insertUser.role = "" THEN "user" ELSE insertUser.role,
                   !.status = IF insertUser.status = "" THEN "pending" ELSE insertUser.status]
    IN  saveUsersToNextCloud([st EXCEPT !.users = MapSet(st.users, id, user),
                                        !.cur = id + 1])

\* updateUser: { ...user, ...updateData } is stored, then saved.
updateUser(st, id, updateData) ==
    saveUsersToNextCloud([st EXCEPT !.users = MapSet(st.users, id, updateData @@ st.users[id])])

\* deleteUser: the account is removed, then the Map is saved.
deleteUser(st, id) ==
    saveUsersToNextCloud([st EXCEPT !.users = MapDelete(st.users, id)])

getAllUsers(us) == DOMAIN us


(***************************************************************************)
(* loadUsersFromNextCloud and verifyStorageConsistency.                    *)
(***************************************************************************)
MaxOf(S) == IF S = {} THEN 0 ELSE CHOOSE m \in S : \A x \in S : x <= m

\* The outer catch of loadUsersFromNextCloud: whatever went wrong, the Map is
\* cleared, the default administrator is added and the Map is saved; a failed
\* save is only logged.
LoadFallback(st) ==
    { o.st : o \in saveUsersToNextCloud(
                [st EXCEPT !.users = MapSet(EmptyMap, st.cur, DefaultAdmin),
                           !.cur = st.cur + 1]) }

\* The same without the recomputation of isApproved.
LoadedUsersAsStored(doc) ==
    LET valid == {i \in DOMAIN doc : doc[i].username # "" /\ doc[i].password # ""}
        norm(u) ==
            LET role   == IF u.role = "" THEN "user" ELSE u.role
                status == IF u.status = "" THEN "pending" ELSE u.status
            IN  [u EXCEPT !.role = IF u.username = ADMIN THEN "admin" ELSE role,
                          !.status = status]
    IN  [i \in valid |-> norm(doc[i])]

\* The accounts a parsed users.json puts in the Map: records without a
\* username or password are skipped, the others normalised, and the account
\* called rdxhere.exe gets role admin.
LoadedUsers(doc) ==
    LET valid == {i \in DOMAIN doc : doc[i].username # "" /\ doc[i].password # ""}
        norm(u) ==
            LET role   == IF u.role = "" THEN "user" ELSE u.role
                status == IF u.status = "" THEN "pending" ELSE u.status
            IN  [u EXCEPT !.role = IF u.username = ADMIN THEN "admin" ELSE role,
                          !.status = status,
                          !.isApproved = (status = "approved")]
    IN  [i \in valid |-> norm(doc[i])]

loadUsersFromNextCloud(st) ==
    LET \* exists() answered false: the default administrator is added to the
        \* Map as it is and saved.
        notExistsFrom(s) ==
            UNION { IF o.ok THEN {o.st} ELSE LoadFallback(o.st)
                    : o \in saveUsersToNextCloud(
                        [s EXCEPT !.users = MapSet(s.users, s.cur, DefaultAdmin),
                                  !.cur = s.cur + 1]) }
        \* exists() failed: taken as "does not exist"
        existsFailed == IF st.f > 0 THEN notExistsFrom([st EXCEPT !.f = st.f - 1]) ELSE {}
        \* getFileContents failed
        readFailed == IF st.f > 0 THEN LoadFallback([st EXCEPT !.f = st.f - 1]) ELSE {}
        \* the content is empty or not JSON
        unparsable == LoadFallback(st)
        \* the document parsed
        us      == LoadedUsers(st.json.users)
        cur     == MaxOf(DOMAIN us) + 1
        loaded  == [st EXCEPT !.users = us, !.cur = cur]
        parsed  ==
            IF FindByUsername(us, ADMIN) = 0
            THEN UNION { IF o.ok THEN {o.st} ELSE LoadFallback(o.st)
                         : o \in saveUsersToNextCloud(
                             [loaded EXCEPT !.users = MapSet(us, cur, DefaultAdmin),
                                            !.cur = cur + 1]) }
            ELSE IF us[FindByUsername(us, ADMIN)].role # "admin"
            THEN UNION { IF o.ok THEN {o.st} ELSE LoadFallback(o.st)
                         : o \in saveUsersToNextCloud(
                             [loaded EXCEPT !.users[FindByUsername(us, ADMIN)].role = "admin"]) }
            ELSE {loaded}
    IN  CASE st.json.kind = "absent"  -> notExistsFrom(st) \cup existsFailed
          [] st.json.kind = "corrupt" -> existsFailed \cup readFailed \cup unparsable
          [] OTHER                    -> existsFailed \cup readFailed \cup parsed

\* verifyStorageConsistency: a missing administrator is only reported (the
\* throw is caught by the method itself); a wrong role is set back to admin
\* and saved; accounts lacking a required field are removed and the Map
\* saved.  A save that throws ends the check, the error is swallowed.
verifyStorageConsistency(st) ==
    LET a == FindByUsername(st.users, ADMIN)
        removeInvalid(s) ==
            LET invalid == {i \in DOMAIN s.users :
                               \/ s.users[i].username = "" \/ s.users[i].password = ""
                               \/ s.users[i].role = ""     \/ s.users[i].status = ""}
            IN  IF invalid = {} THEN {s}
                ELSE { o.st : o \in saveUsersToNextCloud(
                          [s EXCEPT !.users = [i \in (DOMAIN s.users) \ invalid |-> s.users[i]]]) }
    IN  IF a = 0 THEN {st}
        ELSE IF st.users[a].role # "admin"
        THEN UNION { IF o.ok THEN removeInvalid(o.st) ELSE {o.st}
                     : o \in saveUsersToNextCloud([st EXCEPT !.users[a].role = "admin"]) }
        ELSE removeInvalid(st)


(***************************************************************************)
(* The account routes of server/auth.ts.                                   *)
(***************************************************************************)
ust == UState(users, userCurrentId, usersJson, usersBackup, userFaults)

SetU(st) ==
    /\ users' = st.users
    /\ userCurrentId' = st.cur
    /\ usersJson' = st.json
    /\ usersBackup' = st.backup
    /\ userFaults' = st.f

UnchangedU == UNCHANGED uvars

\* What an account route leaves alone.
AccountFrame == UNCHANGED <<fvars, now, uploads, setupPc, pvars>>

\* Who may send a request: an account holding a session, or nobody (0).
Callers == sessions \cup {0}

\* The id in the request path: an id of the Map, or one that is not (0).
Targets == (DOMAIN users) \cup {0}

\* passport.deserializeUser reads the account back from the Map on every
\* request; isAdmin answers 401 without an account and 403 without the role.
isAdmin(caller) ==
    IF caller \notin sessions \cap DOMAIN users THEN 401
    ELSE IF users[caller].role # "admin" THEN 403
    ELSE 0

AdminIds(us) == {i \in DOMAIN us : us[i].role = "admin"}

\* POST /api/login with the account's own password.  The LocalStrategy takes
\* the first account of that name, comparePasswords needs a stored
\* "hash.salt", and only approved accounts get a session; otherwise the
\* answer is 401 and nothing changes.
Login ==
    \E name \in Usernames :
        LET id == getUserByUsername(users, name)
        IN  /\ booted /\ UNCHANGED booted
            /\ AccountFrame
            /\ UnchangedU
            /\ id # 0
            /\ users[id].password = "hashed"
            /\ users[id].isApproved
            /\ sessions' = sessions \cup {id}
            /\ resp' = Resp("login", id, 200)

\* POST /api/register
Register ==
    \E name \in Usernames :
        /\ userCurrentId <= MaxUserId
        /\ booted /\ UNCHANGED booted
        /\ AccountFrame
        /\ UNCHANGED sessions
        /\ IF getUserByUsername(users, name) # 0
           THEN UnchangedU /\ resp' = Resp("register", 0, 400)
           ELSE \E o \in createUser(ust, User(name, "hashed", "user", "pending", FALSE)) :
                    /\ SetU(o.st)
                    /\ resp' = Resp("register", 0, IF o.ok THEN 201 ELSE 500)

\* POST /api/register with an empty username in the body: the route does not
\* validate the body, no account is called "", and createUser stores what it
\* is given.
RegisterUnnamed ==
    /\ userCurrentId <= MaxUserId
    /\ booted /\ UNCHANGED booted
    /\ AccountFrame
    /\ UNCHANGED sessions
    /\ IF getUserByUsername(users, "") # 0
       THEN UnchangedU /\ resp' = Resp("register-unnamed", 0, 400)
       ELSE \E o \in createUser(ust, User("", "hashed", "user", "pending", FALSE)) :
                /\ SetU(o.st)
                /\ resp' = Resp("register-unnamed", userCurrentId, IF o.ok THEN 201 ELSE 500)

\* The common shape of approve-user, reject-user and make-admin: past the
\* isAdmin middleware and the lookup of the account (401, 403 and 404 end the
\* request with nothing done), updateUser.
AdminUpdate(op, updateData) ==
    \E caller \in Callers, id \in Targets :
        /\ booted /\ UNCHANGED booted
        /\ AccountFrame
        /\ UNCHANGED sessions
        /\ isAdmin(caller) = 0
        /\ id \in DOMAIN users
        /\ \E o \in updateUser(ust, id, updateData) :
              /\ SetU(o.st)
              /\ resp' = Resp(op, id, IF o.ok THEN 200 ELSE 500)

ApproveUser == AdminUpdate("approve-user", [isApproved |-> TRUE, status |-> "approved"])

RejectUser == AdminUpdate("reject-user", [isApproved |-> FALSE, status |-> "rejected"])

MakeAdmin == AdminUpdate("make-admin", [role |-> "admin"])

\* POST /api/admin/remove-admin/:id: the only refusal is the last-admin one.
RemoveAdmin ==
    \E caller \in Callers, id \in Targets :
        /\ booted /\ UNCHANGED booted
        /\ AccountFrame
        /\ UNCHANGED sessions
        /\ isAdmin(caller) = 0
        /\ id \in DOMAIN users
        /\ IF Cardinality(AdminIds(users)) <= 1 /\ users[id].role = "admin"
           THEN UnchangedU /\ resp' = Resp("remove-admin", id, 400)
           ELSE \E o \in updateUser(ust, id, [role |-> "user"]) :
                    /\ SetU(o.st)
                    /\ resp' = Resp("remove-admin", id, IF o.ok THEN 200 ELSE 500)

\* DELETE /api/admin/delete-user/:id: refused for the last admin and for the
\* caller's own account.
DeleteUser ==
    \E caller \in Callers, id \in Targets :
        /\ userCurrentId <= MaxUserId
        /\ booted /\ UNCHANGED booted
        /\ AccountFrame
        /\ UNCHANGED sessions
        /\ isAdmin(caller) = 0
        /\ id \in DOMAIN users
        /\ IF Cardinality(AdminIds(users)) <= 1 /\ users[id].role = "admin"
           THEN UnchangedU /\ resp' = Resp("delete-user", id, 400)
           ELSE IF caller = id
           THEN UnchangedU /\ resp' = Resp("delete-user", id, 400)
           ELSE \E o \in deleteUser(ust, id) :
                    /\ SetU(o.st)
                    /\ resp' = Resp("delete-user", id, IF o.ok THEN 200 ELSE 500)

\* A guard that never refuses.
NeverLastAdmin(us, id) == FALSE

\* The last-admin guard of remove-admin and delete-user: the request is
\* refused when its target is an admin and at most one admin is left.
LastAdmin(us, id) == Cardinality(AdminIds(us)) <= 1 /\ us[id].role = "admin"

\* The admin routes up to the first await of their save: past isAdmin, the
\* lookup and the route's own refusals, updateUser / deleteUser change the
\* Map, saveUsersToNextCloud heals it and serialises it (JSON.stringify comes
\* before the first remote call).  No lock keeps two saves apart.
AccountRouteBegin ==
    \E caller \in Callers, id \in Targets,
       op \in {"approve-user", "reject-user", "make-admin", "remove-admin", "delete-user"} :
        LET changed ==
                CASE op = "approve-user" ->
                       MapSet(users, id, [isApproved |-> TRUE, status |-> "approved"] @@ users[id])
                  [] op = "reject-user" ->
                       MapSet(users, id, [isApproved |-> FALSE, status |-> "rejected"] @@ users[id])
                  [] op = "make-admin" -> MapSet(users, id, [role |-> "admin"] @@ users[id])
                  [] op = "remove-admin" -> MapSet(users, id, [role |-> "user"] @@ users[id])
                  [] OTHER -> MapDelete(users, id)
            healed == SaveHeal(changed, userCurrentId)
        IN  /\ booted /\ UNCHANGED booted
            /\ Len(saving) < MaxSaving
            /\ userCurrentId <= MaxUserId
            /\ isAdmin(caller) = 0
            /\ id \in DOMAIN users
            /\ op \in {"remove-admin", "delete-user"} => ~LastAdmin(users, id)
            /\ op = "delete-user" => caller # id
            /\ users' = healed.users
            /\ userCurrentId' = healed.cur
            /\ saving' = Append(saving, Doc(healed.users))
            /\ resp' = Resp(op, id, 0)
            /\ UNCHANGED <<usersJson, usersBackup, userFaults, sessions, fvars, now, uploads,
                           setupPc, registering, renaming, storageClass>>

\* One of the saves in flight reaches the store: users.json is copied to
\* users.backup.json (a failure there is only logged) and the serialised
\* document is written.  A failed write sends the save round again, where it
\* serialises the Map as it is by then.
SaveUsersPut ==
    \E k \in 1..Len(saving) :
        LET rest    == SubSeq(saving, 1, k - 1) \o SubSeq(saving, k + 1, Len(saving))
            healed  == SaveHeal(users, userCurrentId)
            backups == IF usersJson.kind = "absent" THEN {<<usersBackup, userFaults>>}
                       ELSE {<<usersJson, userFaults>>}
                            \cup (IF userFaults > 0 THEN {<<usersBackup, userFaults - 1>>} ELSE {})
        IN  \E b \in backups :
              /\ usersBackup' = b[1]
              /\ \/ /\ usersJson' = saving[k]
                    /\ userFaults' = b[2]
                    /\ saving' = rest
                    /\ UNCHANGED <<users, userCurrentId>>
                    /\ resp' = Resp("save-put", 0, 200)
                 \/ /\ b[2] > 0
                    /\ usersJson' \in {usersJson, Corrupt}
                    /\ userFaults' = b[2] - 1
                    /\ users' = healed.users
                    /\ userCurrentId' = healed.cur
                    /\ saving' = Append(rest, Doc(healed.users))
                    /\ resp' = Resp("save-put", 0, 0)
              /\ UNCHANGED <<sessions, fvars, now, uploads, booted, setupPc,
                             registering, renaming, storageClass>>

\* The account side of the second storage class: createUser, updateUser and
\* deleteUser change the Map and nothing else, so a handler runs from its
\* guard to its change without a remote call in between.  setupDefaultAdmin
\* comes first; then register, login and the admin routes, each with its own
\* refusals.
EnhancedAccountRoute ==
    \E caller \in Callers, id \in Targets, name \in Usernames,
       op \in {"setup", "register", "login", "approve-user", "make-admin",
               "remove-admin", "delete-user"} :
        LET found == getUserByUsername(users, name)
            changed ==
                CASE op = "setup" -> MapSet(users, userCurrentId,
                                            User(ADMIN, "hashed", "admin", "approved", TRUE))
                  [] op = "register" -> MapSet(users, userCurrentId,
                                               User(name, "hashed", "user", "pending", FALSE))
                  [] op = "approve-user" ->
                       MapSet(users, id, [isApproved |-> TRUE, status |-> "approved"] @@ users[id])
                  [] op = "make-admin" -> MapSet(users, id, [role |-> "admin"] @@ users[id])
                  [] op = "remove-admin" -> MapSet(users, id, [role |-> "user"] @@ users[id])
                  [] op = "delete-user" -> MapDelete(users, id)
                  [] OTHER -> users
        IN  /\ storageClass = "enhanced"
            /\ CASE op = "setup" -> userCurrentId = 1 /\ AdminIds(users) = {}
                 [] op = "register" -> /\ userCurrentId \in 2..MaxUserId
                                       /\ found = 0
                 [] op = "login" -> /\ found # 0
                                    /\ users[found].password = "hashed"
                                    /\ users[found].isApproved
                 [] OTHER -> /\ isAdmin(caller) = 0
                             /\ id \in DOMAIN users
                             /\ op \in {"remove-admin", "delete-user"} => ~LastAdmin(users, id)
                             /\ op = "delete-user" => caller # id
            /\ users' = changed
            /\ userCurrentId' = IF op \in {"setup", "register"} THEN userCurrentId + 1
                                 ELSE userCurrentId
            /\ sessions' = IF op = "login" THEN sessions \cup {found} ELSE sessions
            /\ resp' = Resp(op, IF op = "login" THEN found ELSE id, 200)
            /\ UNCHANGED <<usersJson, usersBackup, userFaults, fvars, now, uploads, booted,
                           setupPc, pvars>>

\* POST /api/register as its two halves, for requests that overlap: the
\* uniqueness check, then (after the await of hashPassword) createUser.  A
\* request whose check finds the name is answered 400 with nothing done.
NoRegistering == [n \in Usernames |-> 0]

RegisterCheck ==
    \E name \in Usernames :
        /\ booted /\ UNCHANGED booted
        /\ getUserByUsername(users, name) = 0
        /\ registering[name] < MaxRegistering
        /\ registering' = [registering EXCEPT ![name] = @ + 1]
        /\ resp' = Resp("register-check", 0, 0)
        /\ UnchangedU
        /\ UNCHANGED <<sessions, fvars, now, uploads, setupPc, renaming, saving, storageClass>>

RegisterCreate ==
    \E name \in Usernames :
        /\ registering[name] > 0
        /\ userCurrentId <= MaxUserId
        /\ registering' = [registering EXCEPT ![name] = @ - 1]
        /\ \E o \in createUser(ust, User(name, "hashed", "user", "pending", FALSE)) :
              /\ SetU(o.st)
              /\ resp' = Resp("register", 0, IF o.ok THEN 201 ELSE 500)
        /\ UNCHANGED <<sessions, fvars, now, uploads, booted, setupPc, renaming, saving, storageClass>>


(***************************************************************************)
(* The file catalog: names, remote objects, cached metadata.               *)
(***************************************************************************)
\* Bounds of the catalog model.
MaxUploads == 1

MaxTime == 3

MaxFileFaults == 1

\* The size every uploaded or pre-existing object has.
Sizes == {12}

\* The order in which the remote store lists a folder: by name.
BaseOrder == <<"", "a", "b", "c", "docs", "notes", "x y", "x_y">>

ExtOrder == <<"", ".json", ".png", ".txt", ".zip">>

IndexOf(seq, x) == CHOOSE i \in 1..Len(seq) : seq[i] = x

NameLess(n, m) ==
    LET bn == IndexOf(BaseOrder, n.base)  bm == IndexOf(BaseOrder, m.base)
        en == IndexOf(ExtOrder, n.ext)    em == IndexOf(ExtOrder, m.ext)
    IN  \/ bn < bm
        \/ bn = bm /\ en < em
        \/ bn = bm /\ en = em /\ n.pre < m.pre

RECURSIVE SortedNames(_)
SortedNames(S) ==
    IF S = {} THEN <<>>
    ELSE LET m == CHOOSE x \in S : \A y \in S : x = y \/ NameLess(x, y)
         IN  <<m>> \o SortedNames(S \ {m})

\* path.extname
extname(n) == n.ext

\* name.replace(/\.[^/.]+$/, ""): the name without its last extension
StripExt(n) == Name(n.pre, n.base, "")

\* base + extension
WithExt(n, ext) == Name(n.pre, n.base, ext)

\* originalname.replace(/[^a-zA-Z0-9.-]/g, '_')
Sanitize(n) == Name(n.pre, IF n.base = "x y" THEN "x_y" ELSE n.base, n.ext)

\* `${nanoid()}-${finalFilename}`: the k-th upload's temporary file name
Prefixed(k, n) == Name(k, n.base, n.ext)

\* Remote paths: a folder and a name.  getFullPath puts a file in cdns.
Path(dir, name) == [dir |-> dir, name |-> name]

getFullPath(filename) == Path("cdns", filename)

\* A stored object: a file with its content (bytes: which upload wrote it,
\* 0 for one that was there before the process started), or a directory.
Object(kind, bytes, size) == [kind |-> kind, bytes |-> bytes, size |-> size]

File(filename, originalFilename, path, size, mimeType, uploadedAt, isDeleted, uploadedBy) ==
    [filename |-> filename, originalFilename |-> originalFilename, path |-> path,
     size |-> size, mimeType |-> mimeType, uploadedAt |-> uploadedAt,
     isDeleted |-> isDeleted, uploadedBy |-> uploadedBy]

\* A cached record: a missing field is "", 0 or NoName.
Meta(uploadedBy, uploadedAt, originalFilename) ==
    [uploadedBy |-> uploadedBy, uploadedAt |-> uploadedAt,
     originalFilename |-> originalFilename]

EmptyMeta == [n \in {} |-> Meta("", 0, NoName)]

EmptyFiles == [i \in {} |-> File(NoName, NoName, getFullPath(NoName), 0, "", 0, FALSE, "")]

\* No updateFile call is in flight.
NoRename ==
    [id |-> 0, newName |-> NoName,
     file |-> File(NoName, NoName, getFullPath(NoName), 0, "", 0, FALSE, "")]

EmptyFolder == [n \in {} |-> Object("file", 0, 0)]

\* The content type the remote store reports for a listed file (item.mime);
\* "" when it reports none.
ServerMime(ext) ==
    CASE ext = ".txt"  -> "text/plain"
      [] ext = ".png"  -> "image/png"
      [] ext = ".json" -> "application/json"
      [] ext = ".zip"  -> "application/zip"
      [] OTHER         -> ""

\* The rows of the extension table for the extensions used here.
getMimeTypeFromFilename(filename) ==
    CASE extname(filename) = ".png" -> "image/png"
      [] extname(filename) = ".txt" -> "text/plain"
      [] OTHER                      -> "application/octet-stream"

\* client.getDirectoryContents(cdnsFolder)
ListItem(folder, n) ==
    [basename |-> n, type |-> folder[n].kind, size |-> folder[n].size,
     mime |-> IF folder[n].kind = "file" THEN ServerMime(n.ext) ELSE ""]

getDirectoryContents(folder) ==
    LET names == SortedNames(DOMAIN folder)
    IN  [i \in 1..Len(names) |-> ListItem(folder, names[i])]

\* The state of the catalog: the Map, the id counter, the cached metadata,
\* the remote folders and documents, and the failures still allowed.
FState(fs, cur, meta, folder, json, sc, f) ==
    [files |-> fs, cur |-> cur, meta |-> meta, cdns |-> folder, json |-> json,
     sidecars |-> sc, f |-> f]

\* A scan that skips the directories only.
SkipsDirectoriesOnly(item) == item.type # "directory"

\* The listing entries the scan turns into catalog entries: no directories,
\* no *.json (files.json, users.json and *-users.json end in .json too).
IsUserFile(item) == item.type # "directory" /\ extname(item.basename) # ".json"

\* A scan that empties the Map before it asks for the listing (clear() and
\* the counter reset placed ahead of getDirectoryContents): a failed listing
\* then leaves an empty catalog.
ScanClearingFirst(st, t) ==
    LET kept == SelectSeq(getDirectoryContents(st.cdns), IsUserFile)
        newFile(item) ==
            File(item.basename, item.basename, Path("cdns", item.basename), item.size,
                 IF item.mime # "" THEN item.mime ELSE getMimeTypeFromFilename(item.basename),
                 t, FALSE, "system")
        scanned == [st EXCEPT !.files = [i \in 1..Len(kept) |-> newFile(kept[i])],
                              !.cur = Len(kept) + 1]
    IN  {[st |-> scanned, ok |-> TRUE]}
        \cup (IF st.f > 0
              THEN {[st |-> [st EXCEPT !.files = EmptyFiles, !.cur = 1, !.f = st.f - 1],
                     ok |-> FALSE]}
              ELSE {})

\* scanFilesFromNextCloud at time t.  A failed listing leaves everything as
\* it was.  Otherwise the Map is cleared, the counter is set back to 1 and
\* every kept listing entry becomes a new record, in listing order, with the
\* cached metadata of its filename applied field by field.
scanFilesFromNextCloud(st, t) ==
    LET kept == SelectSeq(getDirectoryContents(st.cdns), IsUserFile)
        newFile(item) ==
            LET filename == item.basename
                has      == ~st.meta.null /\ filename \in DOMAIN st.meta.m
                saved    == st.meta.m[filename]
            IN  File(filename,
                     IF has /\ saved.originalFilename # NoName
                        THEN saved.originalFilename ELSE filename,
                     Path("cdns", filename),
                     item.size,
                     IF item.mime # "" THEN item.mime ELSE getMimeTypeFromFilename(filename),
                     IF has /\ saved.uploadedAt # 0 THEN saved.uploadedAt ELSE t,
                     FALSE,
                     IF has /\ saved.uploadedBy # "" THEN saved.uploadedBy ELSE "system")
        scanned == [st EXCEPT !.files = [i \in 1..Len(kept) |-> newFile(kept[i])],
                              !.cur = Len(kept) + 1]
    IN  {[st |-> scanned, ok |-> TRUE]}
        \cup (IF st.f > 0 THEN {[st |-> [st EXCEPT !.f = st.f - 1], ok |-> FALSE]} ELSE {})


(***************************************************************************)
(* The metadata documents: files.json (bulk) and metadata/<filename>.json. *)
(***************************************************************************)
FAbsent == [kind |-> "absent", m |-> EmptyMeta]

FCorrupt == [kind |-> "corrupt", m |-> EmptyMeta]

FilesDoc(m) == [kind |-> "doc", m |-> m]

\* uploadDate.toLocaleString('en-IN', istOptions): the instant as text
FormatDate(t) == <<"IST", t>>

Sidecar(file, id) ==
    [kind |-> "doc", filename |-> file.originalFilename, size |-> file.size,
     uploaded_on |-> FormatDate(file.uploadedAt), uploaded_by |-> file.uploadedBy,
     mime_type |-> file.mimeType, system_filename |-> file.filename, file_id |-> id]

CorruptSidecar ==
    [kind |-> "corrupt", filename |-> NoName, size |-> 0, uploaded_on |-> FormatDate(0),
     uploaded_by |-> "", mime_type |-> "", system_filename |-> NoName, file_id |-> 0]

EmptySidecars == [n \in {} |-> CorruptSidecar]

\* What the two regular expressions of loadFileMetadataFromNextCloud recover
\* from uploaded_on.  They expect "Month D, YYYY": an en-IN rendering
\* ("D Month YYYY") gives no match and no date, the en-US fallback of a
\* runtime without the en-IN locale data gives the instant back.
ParseUploadedOn(text, locale) == IF locale = "en-US" THEN text[2] ELSE 0

Locales == {"en-IN", "en-US"}

\* One write of a document: stored, or (a failure) left as it was or
\* partially written.
PutFilesJson(st, content) ==
    {[st EXCEPT !.json = content]}
    \cup (IF st.f > 0
          THEN {[st EXCEPT !.json = j, !.f = st.f - 1] : j \in {st.json, FCorrupt}}
          ELSE {})

\* saveFileMetadataToNextCloud: one record per non-deleted file under its
\* filename (a later file of the Map overwrites an earlier one with the same
\* filename); errors are logged, never thrown.
BulkContent(fs) ==
    LET active == {i \in DOMAIN fs : ~fs[i].isDeleted}
        names  == {fs[i].filename : i \in active}
        last(n) == MaxOf({i \in active : fs[i].filename = n})
    IN  [n \in names |->
            Meta(IF fs[last(n)].uploadedBy = "" THEN "system" ELSE fs[last(n)].uploadedBy,
                 fs[last(n)].uploadedAt,
                 fs[last(n)].originalFilename)]

saveFileMetadataToNextCloud(st) == PutFilesJson(st, FilesDoc(BulkContent(st.files)))

\* saveIndividualFileMetadata: metadata/<filename>.json is written; errors
\* are logged, never thrown.
saveIndividualFileMetadata(st, file, id) ==
    LET put(c) == [n \in (DOMAIN st.sidecars) \cup {file.filename} |->
                      IF n = file.filename THEN c ELSE st.sidecars[n]]
    IN  {[st EXCEPT !.sidecars = put(Sidecar(file, id))]}
        \cup (IF st.f > 0
              THEN {[st EXCEPT !.f = st.f - 1],
                    [st EXCEPT !.f = st.f - 1, !.sidecars = put(CorruptSidecar)]}
              ELSE {})

\* loadFileMetadataFromNextCloud: files.json first (missing, unreadable or
\* unparsable gives an empty record set), then every readable sidecar of the
\* metadata folder, in listing order, keyed by its system_filename: its
\* uploaded_by replaces uploadedBy, its uploaded_on (when the date can be
\* recovered) replaces uploadedAt.  lost: the sidecars whose read failed.
RECURSIVE ApplySidecars(_, _, _, _)
ApplySidecars(m, names, sc, locale) ==
    IF names = <<>> THEN m
    ELSE LET info == sc[Head(names)]
             key  == info.system_filename
             old  == IF key \in DOMAIN m THEN m[key] ELSE Meta("", 0, NoName)
             at   == ParseUploadedOn(info.uploaded_on, locale)
             new  == [old EXCEPT
                        !.uploadedBy = IF info.uploaded_by # "" THEN info.uploaded_by ELSE @,
                        !.uploadedAt = IF at # 0 THEN at ELSE @]
             m1   == IF info.kind = "doc" /\ key # NoName
                     THEN [n \in (DOMAIN m) \cup {key} |-> IF n = key THEN new ELSE m[n]]
                     ELSE m
         IN  ApplySidecars(m1, Tail(names), sc, locale)

loadFileMetadataFromNextCloud(st, locale) ==
    LET bulk(s) == IF s.json.kind = "doc" THEN s.json.m ELSE EmptyMeta
        with(s, m, lost) ==
            [s EXCEPT !.meta = [null |-> FALSE,
                                m |-> ApplySidecars(m, SortedNames((DOMAIN s.sidecars) \ lost),
                                                    s.sidecars, locale)],
                      !.f = s.f - Cardinality(lost)]
        only(s, m) == [s EXCEPT !.meta = [null |-> FALSE, m |-> m]]
        \* files.json read or not
        afterBulk ==
            {<<st, bulk(st)>>}
            \cup (IF st.f > 0 /\ st.json.kind # "absent"
                  THEN {<<[st EXCEPT !.f = st.f - 1], EmptyMeta>>} ELSE {})
    IN  UNION {
          { with(b[1], b[2], lost) :
              lost \in {L \in SUBSET (DOMAIN st.sidecars) : Cardinality(L) <= b[1].f} }
          \cup (IF b[1].f > 0 /\ DOMAIN st.sidecars # {}
                THEN {only([b[1] EXCEPT !.f = b[1].f - 1], b[2])} ELSE {})
          : b \in afterBulk }


(***************************************************************************)
(* createFile, updateFile, deleteFile, saveFileFromPath.                   *)
(***************************************************************************)
FilePut(fs, id, file) == [i \in (DOMAIN fs) \cup {id} |-> IF i = id THEN file ELSE fs[i]]

FolderPut(folder, n, obj) ==
    [k \in (DOMAIN folder) \cup {n} |-> IF k = n THEN obj ELSE folder[k]]

FolderRemove(folder, n) == [k \in (DOMAIN folder) \ {n} |-> folder[k]]

\* getFile: undefined (0) for a missing or soft-deleted entry
getFile(fs, id) == IF id \in DOMAIN fs /\ ~fs[id].isDeleted THEN id ELSE 0

\* saveFileFromPath: the temporary file is put at cdns/<filename>; a failure
\* is rethrown.
saveFileFromPath(st, filename, obj) ==
    {[st |-> [st EXCEPT !.cdns = FolderPut(st.cdns, filename, obj)], ok |-> TRUE]}
    \cup (IF st.f > 0 THEN {[st |-> [st EXCEPT !.f = st.f - 1], ok |-> FALSE]} ELSE {})

\* After the Map is changed: the bulk document, then the entry's sidecar.
SaveBoth(st, file, id) ==
    UNION { saveIndividualFileMetadata(s, file, id) : s \in saveFileMetadataToNextCloud(st) }

\* createFile at time t: the next id, path cdns/<insertFile.filename>, the
\* cached record of the filename refreshed (when there is a cache), both
\* metadata documents written.
createFile(st, insertFile, t) ==
    LET id   == st.cur
        file == [insertFile EXCEPT
                   !.uploadedAt = t, !.isDeleted = FALSE,
                   !.path = getFullPath(insertFile.filename),
                   !.uploadedBy = IF insertFile.uploadedBy = "" THEN ADMIN
                                  ELSE insertFile.uploadedBy]
        meta == IF st.meta.null THEN st.meta
                ELSE [st.meta EXCEPT !.m =
                        [n \in (DOMAIN st.meta.m) \cup {file.filename} |->
                            IF n = file.filename
                            THEN Meta(file.uploadedBy, file.uploadedAt, file.originalFilename)
                            ELSE st.meta.m[n]]]
    IN  SaveBoth([st EXCEPT !.files = FilePut(st.files, id, file),
                            !.cur = id + 1, !.meta = meta], file, id)

\* The sidecar part of a physical rename: metadata/<old>.json is copied to
\* metadata/<new>.json and removed; any failure is logged and ends the part.
RenameSidecar(st, old, new) ==
    IF old \notin DOMAIN st.sidecars THEN {st}
    ELSE LET copied == [st EXCEPT !.sidecars = FolderPut(st.sidecars, new, st.sidecars[old])]
             moved  == [copied EXCEPT !.sidecars = FolderRemove(copied.sidecars, old)]
         IN  {moved}
             \cup (IF st.f > 0
                   THEN {[st EXCEPT !.f = st.f - 1], [copied EXCEPT !.f = st.f - 1]}
                   ELSE {})

\* updateFile with the delete of the source outside the try of the copy.
updateFileDeletingAnyway(st, id, newName, file) ==
    LET fileExt     == extname(file.filename)
        newFilename == WithExt(StripExt(newName), fileExt)
        sourcePath  == file.path
        destPath    == Path(sourcePath.dir, newFilename)
        exists      == sourcePath.name \in DOMAIN st.cdns
        display     == [file EXCEPT !.originalFilename = newName]
        physical    == [display EXCEPT !.filename = newFilename, !.path = destPath]
        done(s, f, note) ==
            { [st |-> s2, file |-> id, threw |-> FALSE, note |-> note]
              : s2 \in SaveBoth([s EXCEPT !.files = FilePut(s.files, id, f)], f, id) }
        copied      == [st EXCEPT !.cdns = FolderPut(st.cdns, newFilename, st.cdns[sourcePath.name])]
        removed     == [copied EXCEPT !.cdns = FolderRemove(copied.cdns, sourcePath.name)]
        failing     == [st EXCEPT !.f = st.f - 1]
    IN  IF newName = file.originalFilename THEN done(st, display, "same")
        ELSE (IF st.f > 0 THEN done(failing, display, "exists-failed") ELSE {})
             \cup
             (IF ~exists THEN done(st, physical, "source-missing")
              ELSE IF newFilename = sourcePath.name
              THEN done([st EXCEPT !.cdns = FolderRemove(st.cdns, sourcePath.name)],
                        physical, "copy-failed")
              ELSE UNION { done(s, physical, "renamed")
                           : s \in RenameSidecar(removed, file.filename, newFilename) }
                   \cup (IF st.f > 0
                         THEN done([failing EXCEPT !.cdns = FolderRemove(st.cdns, sourcePath.name)],
                                   physical, "copy-failed")
                              \cup done([copied EXCEPT !.f = st.f - 1], physical, "delete-failed")
                         ELSE {}))

\* updateFile(id, { originalFilename: newName }).  Each outcome: the state,
\* the entry returned (0: undefined), whether the call threw, and the path
\* taken through the rename block:
\*   "same"          the display name is unchanged, no rename block
\*   "exists-failed" exists(sourcePath) threw: display name only
\*   "source-missing" exists answered false: filename and path are changed
\*   "copy-failed"   copyFile threw: filename and path are changed all the same
\*   "delete-failed" copyFile done, deleteFile threw: filename and path changed
\*   "renamed"       object copied and removed, sidecar moved as far as it went
\* A copy of an object onto itself is refused by the store.
\* The call from the entry it has read (file) on: with no other call in
\* between, file is the entry of the Map; the write-back at the end stores
\* file merged with the update, whatever the Map holds by then.
updateFileFrom(st, id, newName, file) ==
    LET fileExt     == extname(file.filename)
        newFilename == WithExt(StripExt(newName), fileExt)
        sourcePath  == file.path
        destPath    == Path(sourcePath.dir, newFilename)
        exists      == sourcePath.name \in DOMAIN st.cdns
        display     == [file EXCEPT !.originalFilename = newName]
        physical    == [display EXCEPT !.filename = newFilename, !.path = destPath]
        done(s, f, note) ==
            { [st |-> s2, file |-> id, threw |-> FALSE, note |-> note]
              : s2 \in SaveBoth([s EXCEPT !.files = FilePut(s.files, id, f)], f, id) }
        copied      == [st EXCEPT !.cdns = FolderPut(st.cdns, newFilename, st.cdns[sourcePath.name])]
        removed     == [copied EXCEPT !.cdns = FolderRemove(copied.cdns, sourcePath.name)]
        failing     == [st EXCEPT !.f = st.f - 1]
    IN  IF newName = file.originalFilename THEN done(st, display, "same")
        ELSE (IF st.f > 0 THEN done(failing, display, "exists-failed") ELSE {})
             \cup
             (IF ~exists THEN done(st, physical, "source-missing")
              ELSE IF newFilename = sourcePath.name THEN done(st, physical, "copy-failed")
              ELSE UNION { done(s, physical, "renamed")
                           : s \in RenameSidecar(removed, file.filename, newFilename) }
                   \cup (IF st.f > 0
                         THEN done(failing, physical, "copy-failed")
                              \cup done([copied EXCEPT !.f = st.f - 1], physical, "delete-failed")
                         ELSE {}))

updateFile(st, id, newName) ==
    IF getFile(st.files, id) = 0
    THEN {[st |-> st, file |-> 0, threw |-> FALSE, note |-> "undefined"]}
    ELSE updateFileFrom(st, id, newName, st.files[id])

\* deleteFile(id): the entry is marked first; then the object is removed when
\* it exists, the sidecar removed (best effort) and the bulk document saved.
\* A failing exists or deleteFile on the object makes the call answer false.
deleteFile(st, id) ==
    IF id \notin DOMAIN st.files THEN {[st |-> st, ok |-> FALSE, note |-> "undefined"]}
    ELSE
    LET file    == st.files[id]
        marked  == [st EXCEPT !.files[id].isDeleted = TRUE]
        exists  == file.path.name \in DOMAIN marked.cdns
        gone    == IF exists
                   THEN [marked EXCEPT !.cdns = FolderRemove(marked.cdns, file.path.name)]
                   ELSE marked
        sidecar(s) ==
            IF file.filename \notin DOMAIN s.sidecars THEN {s}
            ELSE {[s EXCEPT !.sidecars = FolderRemove(s.sidecars, file.filename)]}
                 \cup (IF s.f > 0 THEN {[s EXCEPT !.f = s.f - 1]} ELSE {})
    IN  { [st |-> s2, ok |-> TRUE, note |-> IF exists THEN "removed" ELSE "no-object"]
          : s2 \in UNION { saveFileMetadataToNextCloud(s1) : s1 \in sidecar(gone) } }
        \cup (IF marked.f > 0
              THEN {[st |-> [marked EXCEPT !.f = marked.f - 1], ok |-> FALSE,
                     note |-> "exists-failed"]}
                   \cup (IF exists
                         THEN {[st |-> [marked EXCEPT !.f = marked.f - 1], ok |-> FALSE,
                                note |-> "delete-failed"]}
                         ELSE {})
              ELSE {})


(***************************************************************************)
(* Startup, setupDefaultAdmin and the file routes.                         *)
(***************************************************************************)
fst == FState(files, fileCurrentId, fileMetadata, cdns, filesJson, sidecars, fileFaults)

SetF(st) ==
    /\ files' = st.files
    /\ fileCurrentId' = st.cur
    /\ fileMetadata' = st.meta
    /\ cdns' = st.cdns
    /\ filesJson' = st.json
    /\ sidecars' = st.sidecars
    /\ fileFaults' = st.f

\* new Date(): the clock stands or has moved on since the last step.
Ticks == {now} \cup (IF now < MaxTime THEN {now + 1} ELSE {})

\* initializeStorage, started by the constructor: accounts loaded, metadata
\* loaded, scan, consistency check, bulk metadata saved.
Startup ==
    /\ storageClass = "nextcloud-storage"
    /\ ~booted
    /\ \E locale \in Locales, t \in Ticks :
         \E u \in loadUsersFromNextCloud(ust), m \in loadFileMetadataFromNextCloud(fst, locale) :
           \E sc \in scanFilesFromNextCloud(m, t), v \in verifyStorageConsistency(u) :
             \E sv \in saveFileMetadataToNextCloud(sc.st) :
                /\ SetU(v)
                /\ SetF(sv)
                /\ now' = t
                /\ resp' = Answer("startup", 0, NoName, 0, FALSE,
                                  IF sc.ok THEN "scan-ok" ELSE "scan-failed")
    /\ booted' = TRUE
    /\ UNCHANGED <<sessions, uploads, setupPc, pvars>>

\* setupDefaultAdmin, called by setupAuth while initializeStorage may still
\* be waiting for the remote store: first the look for an account with role
\* admin, then (after the password is hashed) createUser.
SetupCheck ==
    /\ setupPc = "check"
    /\ setupPc' = IF AdminIds(users) = {} THEN "create" ELSE "done"
    /\ resp' = Resp("setup-check", 0, 0)
    /\ UnchangedU
    /\ UNCHANGED <<sessions, fvars, now, uploads, booted, pvars>>

SetupCreate ==
    /\ setupPc = "create"
    /\ setupPc' = "done"
    /\ \E o \in createUser(ust, User(ADMIN, "hashed", "admin", "approved", TRUE)) :
          /\ SetU(o.st)
          /\ resp' = Resp("setup-create", 0, IF o.ok THEN 0 ELSE 500)
    /\ UNCHANGED <<sessions, fvars, now, uploads, booted, pvars>>

\* POST /api/files/refresh: scan, consistency check, bulk metadata saved.
\* None of the three throws, the answer is always 200.
Refresh ==
    /\ booted /\ UNCHANGED booted
    /\ \E t \in Ticks :
         \E sc \in scanFilesFromNextCloud(fst, t), v \in verifyStorageConsistency(ust) :
           \E sv \in saveFileMetadataToNextCloud(sc.st) :
              /\ SetU(v)
              /\ SetF(sv)
              /\ now' = t
              /\ resp' = Answer("refresh", 0, NoName, 200, FALSE,
                                IF sc.ok THEN "scan-ok" ELSE "scan-failed")
    /\ UNCHANGED <<sessions, uploads, setupPc, pvars>>


\* The names a client uploads under and renames to.
UploadNames == {Name(0, "a", ".txt"), Name(0, "x y", ".png")}

RenameNames == {Name(0, "b", ""), Name(0, "a", ".png")}

\* req.file.mimetype: the content type the client sent with the part
ClientMime(n) == IF ServerMime(n.ext) # "" THEN ServerMime(n.ext) ELSE "application/octet-stream"

\* POST /api/files/upload: multer keeps the part under "<nanoid>-<cleanname>";
\* the object is stored under cleanname, the catalog entry is created under
\* the temporary name.
Upload ==
    /\ booted /\ UNCHANGED booted
    /\ uploads < MaxUploads
    /\ uploads' = uploads + 1
    /\ \E caller \in Callers, originalname \in UploadNames, size \in Sizes, t \in Ticks :
         LET cleanname  == Sanitize(originalname)
             filename   == Prefixed(uploads + 1, cleanname)
             uploadedBy == IF caller \in DOMAIN users /\ users[caller].username # ""
                           THEN users[caller].username ELSE "unknown"
         IN  \E p \in saveFileFromPath(fst, cleanname, Object("file", uploads + 1, size)) :
               IF ~p.ok
               THEN /\ SetF(p.st)
                    /\ UNCHANGED now
                    /\ resp' = Answer("upload", 0, originalname, 500, FALSE, "put-failed")
               ELSE \E c \in createFile(p.st,
                                File(filename, originalname, getFullPath(cleanname), size,
                                     ClientMime(originalname), 0, FALSE, uploadedBy), t) :
                       /\ SetF(c)
                       /\ now' = t
                       /\ resp' = Answer("upload", p.st.cur, originalname, 201, FALSE, "created")
    /\ UnchangedU
    /\ UNCHANGED <<sessions, setupPc, pvars>>

\* PATCH /api/files/:id/rename, past the 404 for an entry getFile does not
\* find.  The partialSuccess answer is given only when the first updateFile
\* throws and a second one returns the entry.
Rename ==
    /\ booted /\ UNCHANGED booted
    /\ \E id \in DOMAIN files, newName \in RenameNames :
         /\ getFile(files, id) # 0
         /\ \E o \in updateFile(fst, id, newName) :
              IF o.threw
              THEN \E o2 \in updateFile(o.st, id, newName) :
                     /\ SetF(o2.st)
                     /\ resp' = IF ~o2.threw /\ o2.file # 0
                                THEN Answer("rename", id, newName, 200, TRUE, o.note)
                                ELSE Answer("rename", id, newName, 500, FALSE, o.note)
              ELSE /\ SetF(o.st)
                   /\ resp' = IF o.file = 0
                              THEN Answer("rename", id, newName, 500, FALSE, o.note)
                              ELSE Answer("rename", id, newName, 200, FALSE, o.note)
    /\ UnchangedU
    /\ UNCHANGED <<sessions, now, uploads, setupPc, pvars>>

\* PATCH /api/files/:id/rename as its two halves, for a rename that overlaps
\* another request: updateFile reads the entry and starts its first remote
\* call (a rename to the current display name has no remote call and writes
\* back at once); the remote calls answered, it writes the merged copy back.
RenameBegin ==
    /\ booted /\ UNCHANGED booted
    /\ renaming = NoRename
    /\ \E id \in DOMAIN files, newName \in RenameNames :
         /\ getFile(files, id) # 0
         /\ newName # files[id].originalFilename
         /\ renaming' = [id |-> id, newName |-> newName, file |-> files[id]]
         /\ resp' = Answer("rename-read", id, newName, 0, FALSE, "")
    /\ UnchangedU
    /\ UNCHANGED <<sessions, fvars, now, uploads, setupPc, registering, saving, storageClass>>

RenameEnd ==
    /\ renaming # NoRename
    /\ renaming' = NoRename
    /\ \E o \in updateFileFrom(fst, renaming.id, renaming.newName, renaming.file) :
         /\ SetF(o.st)
         /\ resp' = Answer("rename", renaming.id, renaming.newName, 200, FALSE, o.note)
    /\ UnchangedU
    /\ UNCHANGED <<sessions, now, uploads, booted, setupPc, registering, saving, storageClass>>

\* DELETE /api/files/:id, past the 404 for an entry getFile does not find.
DeleteFile ==
    /\ booted /\ UNCHANGED booted
    /\ \E id \in DOMAIN files :
         /\ getFile(files, id) # 0
         /\ \E o \in deleteFile(fst, id) :
              /\ SetF(o.st)
              /\ resp' = Answer("delete", id, NoName, IF o.ok THEN 200 ELSE 404, FALSE, o.note)
    /\ UnchangedU
    /\ UNCHANGED <<sessions, now, uploads, setupPc, pvars>>

(***************************************************************************)
(* The listing of the catalog.                                             *)
(***************************************************************************)
\* Array.from(values).filter(f => !f.isDeleted).sort(by uploadedAt, newest
\* first): the ids of the active entries; the sort is stable, entries of one
\* instant stay in Map order.
RECURSIVE ByDate(_, _)
ByDate(fs, S) ==
    IF S = {} THEN <<>>
    ELSE LET m == CHOOSE i \in S : \A j \in S :
                      \/ fs[i].uploadedAt > fs[j].uploadedAt
                      \/ fs[i].uploadedAt = fs[j].uploadedAt /\ i <= j
         IN  <<m>> \o ByDate(fs, S \ {m})

getFiles(fs) == ByDate(fs, {i \in DOMAIN fs : ~fs[i].isDeleted})

(***************************************************************************)
(* The second NextCloudStorage class (the one that synchronises in         *)
(* getFiles): no account documents, no metadata documents, no scan at      *)
(* startup; its initializeStorage only looks at the folders.               *)
(***************************************************************************)
\* decodeURIComponent(item.basename): the names used here hold no escape.
decodeURIComponent(n) == n

\* decodedName.split('.').pop() looked up in mimeTypesMap
EnhancedMime(n) ==
    CASE n.ext = ".png" -> "image/png"
      [] n.ext = ".txt" -> "text/plain"
      [] n.ext = ".zip" -> "application/zip"
      [] OTHER          -> "application/octet-stream"

\* item.lastmod: the store's stamp of the write that made the object
LastMod(obj) == obj.bytes

\* First pass of getFiles over the listed files: an item some entry of the
\* Map matches by path or by filename keeps that entry (the first in Map
\* order, deleted or not); any other item becomes a new entry.
RECURSIVE EnhancedFirstPass(_, _, _, _, _)
EnhancedFirstPass(items, fs, folder, actual, cur) ==
    IF items = <<>> THEN [files |-> actual, cur |-> cur]
    ELSE LET item  == Head(items)
             match == {i \in DOMAIN fs : \/ fs[i].path = Path("cdns", item.basename)
                                         \/ fs[i].filename = item.basename}
             first == CHOOSE i \in match : \A j \in match : i <= j
             new   == File(item.basename, decodeURIComponent(item.basename),
                           Path("cdns", item.basename), item.size,
                           EnhancedMime(decodeURIComponent(item.basename)),
                           LastMod(folder[item.basename]), FALSE, "")
         IN  IF match # {}
             THEN EnhancedFirstPass(Tail(items), fs, folder, FilePut(actual, first, fs[first]), cur)
             ELSE EnhancedFirstPass(Tail(items), fs, folder, FilePut(actual, cur, new), cur + 1)

\* Second pass: an active entry whose path is not listed is kept as deleted,
\* a deleted entry is kept as it is; the Map is replaced by the result.
EnhancedSecondPass(fs, listed, actual) ==
    LET gone == {i \in DOMAIN fs : ~fs[i].isDeleted /\ fs[i].path \notin listed}
        kept == {i \in DOMAIN fs : fs[i].isDeleted}
    IN  [i \in (DOMAIN actual) \cup gone \cup kept |->
            IF i \in gone THEN [fs[i] EXCEPT !.isDeleted = TRUE]
            ELSE IF i \in kept THEN fs[i]
            ELSE actual[i]]

\* getFiles of the second class: a failed listing is logged and the list is
\* made from the Map as it is.
EnhancedGetFiles(st) ==
    LET isFile(item) == item.type = "file"
        items  == SelectSeq(getDirectoryContents(st.cdns), isFile)
        listed == {Path("cdns", items[k].basename) : k \in 1..Len(items)}
        p1     == EnhancedFirstPass(items, st.files, st.cdns, EmptyFiles, st.cur)
        synced == [st EXCEPT !.files = EnhancedSecondPass(st.files, listed, p1.files),
                             !.cur = p1.cur]
    IN  {[st |-> synced, ok |-> TRUE, list |-> getFiles(synced.files)]}
        \cup (IF st.f > 0
              THEN {[st |-> [st EXCEPT !.f = st.f - 1], ok |-> FALSE,
                     list |-> getFiles(st.files)]}
              ELSE {})

\* createFile of the second class: the entry is put in the Map, nothing is
\* written to the store.
EnhancedCreateFile(st, insertFile, t) ==
    LET file == [insertFile EXCEPT !.uploadedAt = t, !.isDeleted = FALSE,
                                   !.path = getFullPath(insertFile.filename)]
    IN  [st EXCEPT !.files = FilePut(st.files, st.cur, file), !.cur = st.cur + 1]

\* deleteFile of the second class.
EnhancedDeleteFile(st, id) ==
    LET file   == st.files[id]
        marked == [st EXCEPT !.files[id].isDeleted = TRUE]
        exists == file.path.name \in DOMAIN marked.cdns
    IN  {[st |-> IF exists
                 THEN [marked EXCEPT !.cdns = FolderRemove(marked.cdns, file.path.name)]
                 ELSE marked,
          ok |-> TRUE]}
        \cup (IF marked.f > 0
              THEN {[st |-> [marked EXCEPT !.f = marked.f - 1], ok |-> FALSE]}
              ELSE {})

\* The file routes served by the second class.
EnhancedFrame ==
    /\ storageClass = "enhanced"
    /\ UnchangedU
    /\ UNCHANGED <<sessions, booted, setupPc, pvars>>

\* GET /api/files
EnhancedList ==
    /\ EnhancedFrame
    /\ UNCHANGED <<now, uploads>>
    /\ \E o \in EnhancedGetFiles(fst) :
          /\ SetF(o.st)
          /\ resp' = Answer("list", 0, NoName, 200, FALSE,
                            IF o.ok THEN "synced" ELSE "listing-failed")

\* POST /api/files/upload
EnhancedUpload ==
    /\ EnhancedFrame
    /\ uploads < MaxUploads
    /\ uploads' = uploads + 1
    /\ \E originalname \in UploadNames, size \in Sizes, t \in Ticks :
         LET cleanname == Sanitize(originalname)
             filename  == Prefixed(uploads + 1, cleanname)
         IN  \E p \in saveFileFromPath(fst, cleanname, Object("file", uploads + 1, size)) :
               IF ~p.ok
               THEN /\ SetF(p.st)
                    /\ UNCHANGED now
                    /\ resp' = Answer("upload", 0, originalname, 500, FALSE, "put-failed")
               ELSE /\ SetF(EnhancedCreateFile(p.st,
                                File(filename, originalname, getFullPath(cleanname), size,
                                     ClientMime(originalname), 0, FALSE, "unknown"), t))
                    /\ now' = t
                    /\ resp' = Answer("upload", p.st.cur, originalname, 201, FALSE, "created")

\* DELETE /api/files/:id, past the 404 for an entry getFile does not find.
EnhancedDelete ==
    /\ EnhancedFrame
    /\ UNCHANGED <<now, uploads>>
    /\ \E id \in DOMAIN files :
         /\ getFile(files, id) # 0
         /\ \E o \in EnhancedDeleteFile(fst, id) :
              /\ SetF(o.st)
              /\ resp' = Answer("delete", id, NoName, IF o.ok THEN 200 ELSE 404, FALSE,
                                IF o.ok THEN "removed" ELSE "delete-failed")

(***************************************************************************)
(* Initial states: the process has been constructed, nothing is loaded;    *)
(* the remote store holds what an earlier run (or an operator) left there. *)
(***************************************************************************)
HashedAdmin == User(ADMIN, "hashed", "admin", "approved", TRUE)

Alice(role) == User("alice", "hashed", role, "approved", TRUE)

InitUsersJson ==
    {Absent,
     Doc([i \in {1} |-> HashedAdmin]),
     Doc([i \in {1, 2} |-> IF i = 1 THEN HashedAdmin ELSE Alice("admin")])}

InitMemory ==
    /\ users = EmptyMap
    /\ userCurrentId = 1
    /\ sessions = {}
    /\ files = EmptyFiles
    /\ fileCurrentId = 1
    /\ fileMetadata = [null |-> TRUE, m |-> EmptyMeta]
    /\ uploads = 0
    /\ booted = FALSE
    /\ setupPc = "check"
    /\ registering = NoRegistering
    /\ renaming = NoRename
    /\ saving = <<>>
    /\ storageClass = "nextcloud-storage"
    /\ resp = NoResp

InitAccounts ==
    /\ InitMemory
    /\ now = MaxTime
    /\ usersJson \in InitUsersJson
    /\ usersBackup = Absent
    /\ userFaults = MaxUserFaults
    /\ cdns = EmptyFolder
    /\ filesJson = FAbsent
    /\ sidecars = EmptySidecars
    /\ fileFaults = 0

NextAccounts ==
    \/ Startup
    \/ SetupCheck
    \/ SetupCreate
    \/ Login
    \/ Register
    \/ ApproveUser
    \/ RejectUser
    \/ MakeAdmin
    \/ RemoveAdmin
    \/ DeleteUser
    \/ Refresh

SpecAccounts == InitAccounts /\ [][NextAccounts]_vars


\* What the remote store may hold when the process starts.
OldObject == Object("file", 0, 12)

InitCdns ==
    {[n \in {Name(0, "a", ".txt"), Name(0, "b", ".txt")} |-> OldObject],
     [n \in {Name(0, "a", ".txt"), Name(0, "notes", ".json"), Name(0, "docs", "")} |->
         IF n.base = "docs" THEN Object("directory", 0, 0) ELSE OldObject]}

OldFile ==
    File(Name(0, "a", ".txt"), Name(0, "notes", ".txt"), getFullPath(Name(0, "a", ".txt")),
         12, "text/plain", 1, FALSE, "alice")

InitFilesJson ==
    <<FAbsent,
      FilesDoc([n \in {Name(0, "a", ".txt")} |-> Meta("alice", 1, Name(0, "notes", ".txt"))])>>

InitSidecars ==
    <<EmptySidecars, [n \in {Name(0, "a", ".txt")} |-> Sidecar(OldFile, 1)]>>

InitCatalogWith(folders) ==
    /\ InitMemory
    /\ now = 2
    /\ usersJson = Doc([i \in {1} |-> HashedAdmin])
    /\ usersBackup = Absent
    /\ userFaults = 0
    /\ cdns \in folders
    /\ \E k \in {1, 2} : filesJson = InitFilesJson[k] /\ sidecars = InitSidecars[k]
    /\ fileFaults = MaxFileFaults

InitCatalog == InitCatalogWith(InitCdns)

\* Scans against uploads and deletions.
NextCatalog ==
    \/ Startup
    \/ Login
    \/ Upload
    \/ DeleteFile
    \/ Refresh

SpecCatalog == InitCatalog /\ [][NextCatalog]_vars

\* Scans against renames.
NextRename ==
    \/ Startup
    \/ Rename
    \/ Refresh

SpecRename == InitCatalog /\ [][NextRename]_vars

\* Scans of a folder that holds objects nothing is known about: an archive
\* (a type the store reports and the extension table does not have), a file
\* without extension (no type reported), a *.json file and a directory.
OrphanCdns ==
    {[n \in {Name(0, "a", ".txt"), Name(0, "c", ".zip"), Name(0, "notes", "")} |-> OldObject],
     [n \in {Name(0, "b", ".png"), Name(0, "notes", ".json"), Name(0, "docs", "")} |->
         IF n.base = "docs" THEN Object("directory", 0, 0) ELSE OldObject]}

InitOrphans == InitCatalogWith(OrphanCdns)

NextOrphans ==
    \/ Startup
    \/ Upload
    \/ DeleteFile
    \/ Refresh

SpecOrphans == InitOrphans /\ [][NextOrphans]_vars

\* A store where the two metadata documents of a.txt disagree: the sidecar
\* was written at upload (alice, notes.txt, time 1); files.json was rewritten
\* by a later saveFileMetadataToNextCloud from an entry the scan had built
\* without cached metadata (system, a.txt, time 2).
MergeFilesJson ==
    FilesDoc([n \in {Name(0, "a", ".txt")} |-> Meta("system", 2, Name(0, "a", ".txt"))])

InitMerge ==
    /\ InitMemory
    /\ now = 2
    /\ usersJson = Doc([i \in {1} |-> HashedAdmin])
    /\ usersBackup = Absent
    /\ userFaults = 0
    /\ cdns \in InitCdns
    /\ filesJson = MergeFilesJson
    /\ sidecars = InitSidecars[2]
    /\ fileFaults = MaxFileFaults

SpecMerge == InitMerge /\ [][NextCatalog]_vars

\* A rename that overlaps a delete.
NextOverlap ==
    \/ Startup
    \/ RenameBegin
    \/ RenameEnd
    \/ DeleteFile

SpecOverlap == InitCatalog /\ [][NextOverlap]_vars

\* A process that has constructed the second class.
InitEnhanced ==
    /\ users = EmptyMap
    /\ userCurrentId = 1
    /\ sessions = {}
    /\ usersJson = Absent
    /\ usersBackup = Absent
    /\ userFaults = 0
    /\ files = EmptyFiles
    /\ fileCurrentId = 1
    /\ fileMetadata = [null |-> TRUE, m |-> EmptyMeta]
    /\ cdns \in InitCdns
    /\ filesJson = FAbsent
    /\ sidecars = EmptySidecars
    /\ fileFaults = MaxFileFaults
    /\ now = 2
    /\ uploads = 0
    /\ booted = FALSE
    /\ setupPc = "done"
    /\ registering = NoRegistering
    /\ renaming = NoRename
    /\ saving = <<>>
    /\ storageClass = "enhanced"
    /\ resp = NoResp

\* The catalog under either class: storage.ts constructs one of them.
InitStorage == InitCatalog \/ InitEnhanced

NextStorage ==
    \/ Startup
    \/ Upload
    \/ DeleteFile
    \/ Refresh
    \/ EnhancedList
    \/ EnhancedUpload
    \/ EnhancedDelete

SpecStorage == InitStorage /\ [][NextStorage]_vars

\* Persisting the accounts against a store that fails as often as one save
\* can take: every attempt of one saveUsersToNextCloud.
InitPersist ==
    /\ InitMemory
    /\ now = MaxTime
    /\ usersJson \in InitUsersJson
    /\ usersBackup = Absent
    /\ userFaults = maxRetries + 1
    /\ cdns = EmptyFolder
    /\ filesJson = FAbsent
    /\ sidecars = EmptySidecars
    /\ fileFaults = 0

NextPersist ==
    \/ Startup
    \/ SetupCheck
    \/ SetupCreate
    \/ Register

SpecPersist == InitPersist /\ [][NextPersist]_vars

\* Register requests that overlap each other and the two startup paths.
NextRegister ==
    \/ Startup
    \/ SetupCheck
    \/ SetupCreate
    \/ RegisterCheck
    \/ RegisterCreate

SpecRegister == InitAccounts /\ [][NextRegister]_vars

\* The store holds two accounts and answers every call: what is at stake is
\* only the order of the startup load and the default-admin bootstrap.
InitBootstrap ==
    /\ InitMemory
    /\ now = MaxTime
    /\ usersJson = Doc([i \in {1, 2} |-> IF i = 1 THEN HashedAdmin ELSE Alice("admin")])
    /\ usersBackup = Absent
    /\ userFaults = 0
    /\ cdns = EmptyFolder
    /\ filesJson = FAbsent
    /\ sidecars = EmptySidecars
    /\ fileFaults = 0

SpecBootstrap == InitBootstrap /\ [][NextAccounts]_vars

\* A users.json whose second record has the flag and the status out of step
\* (a document edited by hand, or written by a version without the fix-up).
InitFlags ==
    /\ InitMemory
    /\ now = MaxTime
    /\ usersJson = Doc([i \in {1, 2} |-> IF i = 1 THEN HashedAdmin
                                         ELSE User("alice", "hashed", "user", "pending", TRUE)])
    /\ usersBackup = Absent
    /\ userFaults = MaxUserFaults
    /\ cdns = EmptyFolder
    /\ filesJson = FAbsent
    /\ sidecars = EmptySidecars
    /\ fileFaults = 0

SpecFlags == InitFlags /\ [][NextAccounts]_vars

\* Admin requests whose saves overlap.
NextSaves ==
    \/ Startup
    \/ Login
    \/ AccountRouteBegin
    \/ SaveUsersPut

SpecSaves == InitAccounts /\ [][NextSaves]_vars

\* A store that answers every call: uploads, renames and deletes.
InitReliable ==
    /\ InitMemory
    /\ now = 2
    /\ usersJson = Doc([i \in {1} |-> HashedAdmin])
    /\ usersBackup = Absent
    /\ userFaults = 0
    /\ cdns \in InitCdns
    /\ \E k \in {1, 2} : filesJson = InitFilesJson[k] /\ sidecars = InitSidecars[k]
    /\ fileFaults = 0

NextReliable ==
    \/ Startup
    \/ Upload
    \/ Rename
    \/ DeleteFile

SpecReliable == InitReliable /\ [][NextReliable]_vars

\* The admin requests against either storage class, the saves of the first
\* class overlapping.
InitAdmins == InitAccounts \/ InitEnhanced

NextAdmins ==
    \/ Startup
    \/ Login
    \/ AccountRouteBegin
    \/ SaveUsersPut
    \/ EnhancedAccountRoute

SpecAdmins == InitAdmins /\ [][NextAdmins]_vars

\* Registrations with and without a username, and the consistency check.
NextUnnamed ==
    \/ Startup
    \/ SetupCheck
    \/ SetupCreate
    \/ Register
    \/ RegisterUnnamed
    \/ Refresh

SpecUnnamed == InitAccounts /\ [][NextUnnamed]_vars

(***************************************************************************)
(* Properties.                                                             *)
(***************************************************************************)

\* C1: after verifyStorageConsistency has run (it runs in initializeStorage
\* and in every refresh), exactly one account is called rdxhere.exe and that
\* account has role admin and status approved.
C1_VerifyRestoresAdmin ==
    resp.op \in {"startup", "refresh"} =>
        LET named == {i \in DOMAIN users : users[i].username = ADMIN}
        IN  /\ Cardinality(named) = 1
            /\ \A i \in named : users[i].role = "admin" /\ users[i].status = "approved"

\* C2: a remove-admin or delete-user request whose target is the rdxhere.exe
\* account is never carried out: it is not answered 200 and the account map
\* is left as it was.
C2_PrimordialProtected ==
    [][\A id \in DOMAIN users :
          (/\ users[id].username = ADMIN
           /\ resp'.op \in {"remove-admin", "delete-user"}
           /\ resp'.target = id)
          => (resp'.code # 200 /\ users' = users)]_vars

\* C3: a scan that follows a scan directly (nothing happened to the remote
\* listing in between) leaves the catalog exactly as the first scan made it:
\* same ids, same fields, upload time included.
C3_ScanIdempotent ==
    [][(/\ resp.op \in {"startup", "refresh"} /\ resp.note = "scan-ok"
        /\ resp'.op = "refresh" /\ resp'.note = "scan-ok")
       => files' = files]_vars

\* C4: the scan that directly follows a deleteFile (nobody wrote the object in
\* between) does not make the soft-deleted object an active entry again, also
\* when the physical delete failed and the object is still listed.
C4_NoResurrection ==
    [][(/\ resp.op = "delete"
        /\ resp'.op = "refresh" /\ resp'.note = "scan-ok")
       => LET key == files[resp.target].path.name
          IN  (\A i \in DOMAIN files : files[i].isDeleted \/ files[i].path.name # key)
              => (\A j \in DOMAIN files' :
                     files'[j].isDeleted \/ files'[j].path.name # key)]_vars

\* C5: the id counter never goes back, and an id that denotes an object keeps
\* denoting that object (the nanoid prefix of an uploaded name set aside) in
\* every later state of the process.
C5_IdsNeverReused ==
    [][/\ fileCurrentId' >= fileCurrentId
       /\ \A i \in (DOMAIN files) \cap (DOMAIN files') :
             /\ files'[i].filename.base = files[i].filename.base
             /\ files'[i].filename.ext = files[i].filename.ext]_vars

\* C6: after a scan, every entry that was active before it and whose filename
\* is not in the remote folder is still in the Map under its id, soft-deleted.
C6_MissingObjectsSoftDeleted ==
    [][(resp'.op = "refresh" /\ resp'.note = "scan-ok")
       => \A i \in DOMAIN files :
             (~files[i].isDeleted /\ files[i].filename \notin DOMAIN cdns)
             => (/\ i \in DOMAIN files'
                 /\ files'[i].isDeleted
                 /\ files'[i].filename = files[i].filename
                 /\ getFile(files', i) = 0)]_vars

\* C7: a rename whose copy or delete on the remote store failed still sets
\* the display name, is answered 200 with the entry, and the answer carries
\* the partialSuccess flag.
C7_RenamePartialSuccess ==
    (resp.op = "rename" /\ resp.note \in {"copy-failed", "delete-failed"})
    => (/\ resp.code = 200
        /\ files[resp.target].originalFilename = resp.arg
        /\ resp.partial)

\* C8: when a save finds users.json in place and leaves it partially written
\* (every attempt failed), users.backup.json holds a readable document.
C8_BackupSurvives ==
    [][(usersJson.kind = "doc" /\ usersJson'.kind = "corrupt")
       => usersBackup'.kind = "doc"]_vars

\* C9: no two entries that are not soft-deleted have the same filename.
C9_ActiveKeysUnique ==
    \A i, j \in DOMAIN files :
        (i # j /\ ~files[i].isDeleted /\ ~files[j].isDeleted)
        => files[i].filename # files[j].filename

\* C10: after every completed account request exactly one account is called
\* rdxhere.exe, and it is an approved admin.
C10_PrimordialAfterEveryOperation ==
    (/\ resp.op \in {"register", "approve-user", "reject-user", "make-admin",
                     "remove-admin", "delete-user"}
     /\ resp.code \in {200, 201})
    => LET named == {i \in DOMAIN users : users[i].username = ADMIN}
       IN  /\ Cardinality(named) = 1
           /\ \A i \in named : /\ users[i].role = "admin"
                               /\ users[i].status = "approved"
                               /\ users[i].isApproved

\* C11: no two accounts of the map have the same username, register
\* requests for one name that overlap and the two places that create the
\* default administrator at startup included.
C11_UsernamesUnique ==
    \A i, j \in DOMAIN users : i # j => users[i].username # users[j].username

\* C12: a deleteFile that has put the soft-delete mark on its entry answers
\* success (the route answers 200), a failed physical delete included.
C12_DeleteReportsSuccess ==
    (resp.op = "delete" /\ resp.target \in DOMAIN files /\ files[resp.target].isDeleted)
        => resp.code = 200

\* C13: a soft-deleted entry stays soft-deleted in every step, a rename
\* that overlaps the delete of the same id included.
C13_SoftDeletedStays ==
    [][\A i \in DOMAIN files :
          files[i].isDeleted => (i \in DOMAIN files' /\ files'[i].isDeleted)]_vars

\* C14: a reconciliation pass whose listing of the remote folder fails
\* leaves the file map and the next-id counter exactly as they were.
C14_FailedListingKeepsCatalog ==
    [][(\/ resp'.op \in {"startup", "refresh"} /\ resp'.note = "scan-failed"
        \/ resp'.op = "list" /\ resp'.note = "listing-failed")
       => (files' = files /\ fileCurrentId' = fileCurrentId)]_vars

C14_Witness ==
    /\ resp.note \in {"scan-failed", "listing-failed"}
    /\ resp.op \in {"refresh", "list"}
    /\ \E i \in DOMAIN files : ~files[i].isDeleted

\* C15: right after an upload has created its entry, the listing of the
\* files holds that entry exactly once, active, with the display name and
\* the size that were given; when the entry is the only one of the map the
\* listing has exactly one entry.
C15_CreateThenList ==
    (resp.op = "upload" /\ resp.code = 201) =>
        LET id      == resp.target
            listing == IF storageClass = "enhanced"
                       THEN {[fs |-> o.st.files, list |-> o.list] : o \in EnhancedGetFiles(fst)}
                       ELSE {[fs |-> files, list |-> getFiles(files)]}
        IN  \A l \in listing :
               /\ Cardinality({k \in 1..Len(l.list) : l.list[k] = id}) = 1
               /\ l.fs[id].originalFilename = resp.arg
               /\ l.fs[id].size \in Sizes
               /\ ~l.fs[id].isDeleted
               /\ (DOMAIN files = {id}) => Len(l.list) = 1

C17_SaveAttemptsBounded ==
    LET outcomes == saveUsersToNextCloud(ust)
        backoff  == <<1000, 2000, 4000>>
    IN  /\ outcomes # {}
        /\ \A o \in outcomes :
              /\ o.puts \in 1..4
              /\ o.waited = SubSeq(backoff, 1, o.puts - 1)
              /\ o.ok => o.st.json = Doc(o.st.users)
              /\ ~o.ok => o.puts = 4
              /\ userFaults - o.st.f >= (IF o.ok THEN o.puts - 1 ELSE o.puts)

C17_Witness ==
    /\ resp.op = "register" /\ resp.code = 500
    /\ userFaults = 0
    /\ \E s \in saveUsersToNextCloud(ust) : s.ok /\ s.puts = 1

\* C18: when a file uploaded by a logged-in user through the upload route
\* is followed by a reconciliation whose listing succeeded, the catalog still
\* holds an active entry with that uploader and that display name.
C18_UploadSurvivesRefresh ==
    [][(/\ resp.op = "upload" /\ resp.code = 201
        /\ resp.target \in DOMAIN files
        /\ \E u \in DOMAIN users : users[u].username = files[resp.target].uploadedBy
        /\ resp'.op = "refresh" /\ resp'.note = "scan-ok")
       => \E i \in DOMAIN files' :
            /\ ~files'[i].isDeleted
            /\ files'[i].uploadedBy = files[resp.target].uploadedBy
            /\ files'[i].originalFilename = files[resp.target].originalFilename]_vars

C20_SidecarWins ==
    [][(resp'.op = "startup" /\ fileFaults' = fileFaults /\ filesJson.kind = "doc")
       => \A k \in DOMAIN sidecars :
            (sidecars[k].kind = "doc" /\ sidecars[k].system_filename \in DOMAIN filesJson.m)
            => LET key == sidecars[k].system_filename
               IN  /\ ~fileMetadata'.null
                   /\ key \in DOMAIN fileMetadata'.m
                   /\ fileMetadata'.m[key].uploadedBy = sidecars[k].uploaded_by
                   /\ FormatDate(fileMetadata'.m[key].uploadedAt) = sidecars[k].uploaded_on
                   /\ fileMetadata'.m[key].originalFilename = sidecars[k].filename]_vars

\* C21: neither the account map nor users.json holds an account without a
\* username or password, nor one kept under the made-up username user_<id>
\* or the password default_password.
C21_IncompleteAccountsDropped ==
    LET kept(u, i) == \/ u.username \in {"", "user_" \o ToString(i)}
                      \/ u.password \in {"", "default_password"}
    IN  /\ \A i \in DOMAIN users : ~kept(users[i], i)
        /\ usersJson.kind = "doc" =>
              \A i \in DOMAIN usersJson.users : ~kept(usersJson.users[i], i)

\* C22: right after a reconciliation pass whose listing succeeded (the scan
\* at startup or refresh, or the syncing getFiles), the storage keys of the
\* active entries are the names of the listed objects that are neither a
\* directory nor a .json document, one active entry for each.
C22_ActiveKeysAreUserFiles ==
    LET active == {i \in DOMAIN files : ~files[i].isDeleted}
        wanted == {n \in DOMAIN cdns : cdns[n].kind = "file" /\ n.ext # ".json"}
    IN  (\/ resp.op \in {"startup", "refresh"} /\ resp.note = "scan-ok"
         \/ resp.op = "list" /\ resp.note = "synced")
        => /\ {files[i].filename : i \in active} = wanted
           /\ \A i, j \in active : files[i].filename = files[j].filename => i = j

\* C23: every account in the map has isApproved = (status = 'approved'),
\* after a load of users.json whose records disagree on it, after createUser
\* and after every updateUser of the admin routes.
C23_ApprovedFlagMatchesStatus ==
    \A i \in DOMAIN users : users[i].isApproved = (users[i].status = "approved")

C23_Witness ==
    /\ resp.op = "make-admin" /\ resp.code = 200 /\ resp.target = 2
    /\ 2 \in DOMAIN users
    /\ users[2].username = "alice" /\ users[2].status = "pending" /\ ~users[2].isApproved
    /\ usersJson = Doc(users)

\* C24: a start that finds a users.json document does not replace
\* users.json or users.backup.json by a document holding nothing but the
\* default administrator, whether or not reading the document fails.
C24_FailedLoadKeepsAccounts ==
    [][LET adminOnly(d) == /\ d.kind = "doc"
                           /\ \A i \in DOMAIN d.users : d.users[i] = DefaultAdmin
       IN  (resp'.op = "startup" /\ usersJson.kind = "doc")
           => /\ (usersJson' # usersJson => ~adminOnly(usersJson'))
              /\ (usersBackup' # usersBackup => ~adminOnly(usersBackup'))]_vars

\* C25: once the startup load and the default-admin bootstrap have both
\* completed, in whichever order, the two accounts users.json held before
\* the start are in the account map and in users.json.
C25_BootstrapKeepsAccounts ==
    LET before == {HashedAdmin, Alice("admin")}
        held(m) == {m[i] : i \in DOMAIN m}
    IN  (booted /\ setupPc = "done" /\ resp.op \in {"startup", "setup-check", "setup-create"})
        => /\ before \subseteq held(users)
           /\ usersJson.kind = "doc" /\ before \subseteq held(usersJson.users)

\* C26: when a write of users.json succeeds and no other save is in flight,
\* users.json holds the account map as it is then, however the saves of the
\* admin requests overlapped.
C26_LastWriteIsCurrentMap ==
    [][(resp'.op = "save-put" /\ resp'.code = 200 /\ saving' = <<>>)
       => usersJson' = Doc(users')]_vars

\* C27: a startup or refresh whose listing failed leaves in files.json
\* every key it held before, with the same uploader and display name.
C27_FailedListingKeepsBulk ==
    [][(/\ resp'.op \in {"startup", "refresh"} /\ resp'.note = "scan-failed"
        /\ filesJson.kind = "doc")
       => /\ filesJson'.kind = "doc"
          /\ \A n \in DOMAIN filesJson.m :
                /\ n \in DOMAIN filesJson'.m
                /\ filesJson'.m[n].uploadedBy = filesJson.m[n].uploadedBy
                /\ filesJson'.m[n].originalFilename = filesJson.m[n].originalFilename]_vars

\* C28: a registration answered with an error because every write of
\* users.json failed leaves the account map as it was before the request.
C28_FailedRegisterLeavesNoAccount ==
    [][(resp'.op = "register" /\ resp'.code = 500) => users' = users]_vars

\* C29: with a store that never fails, after any uploads, renames and
\* deletes the path of every active entry names a file object of the store.
C29_ActivePathsExist ==
    \A i \in DOMAIN files :
        ~files[i].isDeleted
        => /\ files[i].path.name \in DOMAIN cdns
           /\ cdns[files[i].path.name].kind = "file"

\* C30: after a remove-admin or delete-user request has changed the account
\* map, and after each write of a save, at least one account has the role
\* admin; this with two admins and requests whose saves overlap, and in the
\* storage class that never heals the map.
C30_AnAdminRemains ==
    resp.op \in {"remove-admin", "delete-user", "save-put"} => AdminIds(users) # {}

C30_Witness ==
    /\ resp.op = "remove-admin"
    /\ Len(saving) = 2
    /\ Cardinality(AdminIds(users)) = 1
    /\ Cardinality(DOMAIN users) = 2

====
